---- MODULE Spec2Model ----
(***************************************************************************)
(* PerfJITEventListener (src/src/PerfJITEventListener.cpp): the jitdump    *)
(* log written for perf.  The listener is constructed once, then           *)
(* NotifyObjectEmitted is called by the host's compilation threads.  The   *)
(* listener itself takes no lock, so each access to the shared stream, the *)
(* clock and CodeGeneration is one step of the calling thread.             *)
(*                                                                         *)
(* The log is the sequence of the chunks handed to Dumpstream->write, one  *)
(* chunk per call, each with its byte count.  64-bit quantities are kept   *)
(* as four 16-bit limbs, least significant first, so that the 32-bit       *)
(* TotalSize field truncates as it does in the program.                    *)
(***************************************************************************)
EXTENDS Integers, Sequences, FiniteSets, TLC

\* ------------------------------------------------------------------ bounds
\* calls of NotifyObjectEmitted in one run, over all threads
MaxCalls == 2
\* writes to the stream that fail with an I/O error in one run
MaxFaults == 1
\* calls of NotifyFreeingObject in one run
MaxFreed == 1

Threads == {"t1", "t2"}

\* ------------------------------------------------------- 64-bit arithmetic
Limb == 2^16

U64(n) == <<n % Limb, (n \div Limb) % Limb, 0, 0>>

Add64(x, y) ==
    LET s1 == x[1] + y[1]
        s2 == x[2] + y[2] + (s1 \div Limb)
        s3 == x[3] + y[3] + (s2 \div Limb)
        s4 == x[4] + y[4] + (s3 \div Limb)
    IN  <<s1 % Limb, s2 % Limb, s3 % Limb, s4 % Limb>>

\* the value kept by an assignment to a uint32_t field
Trunc32(x) == <<x[1], x[2], 0, 0>>

RECURSIVE Sum64(_)
Sum64(s) == IF s = <<>> THEN U64(0) ELSE Add64(Head(s), Sum64(Tail(s)))

\* ------------------------------------------------------- layout constants
JIT_CODE_LOAD == 0
JIT_CODE_MOVE == 1
JIT_CODE_DEBUG_INFO == 2
JIT_CODE_CLOSE == 3
LLVM_PERF_JIT_VERSION == 1

SizeofHeader == 40
SizeofCodeLoad == 56
SizeofDebugInfo == 32
SizeofDebugEntry == 16

\* LineInfo.Addr += 0x40
ElfHeaderOffset == 64

\* ------------------------------------------------------------ the inputs
\* strings are sequences of non-zero bytes; the program writes size()+1
\* bytes, the last one being the terminating NUL
NUL == 0
CStr(s) == s \o <<NUL>>

NameFoo == <<102, 111, 111>>
NameBar == <<98>>
FileA == <<97, 46, 99>>
FileB == <<98, 46, 99>>

\* a line table entry: It->first, and the DILineInfo It->second
Line(a, f, l, d) == [addr |-> a, file |-> f, line |-> l, discrim |-> d]

\* a symbol of the object as the providers report it: the results of
\* getType, getName, getAddress, the size from computeSymbolSizes, and the
\* line table of the range
Sym(ty, nok, aok, nm, a, sz, ls) ==
    [type |-> ty, nameOk |-> nok, addrOk |-> aok, name |-> nm, addr |-> a,
     size |-> sz, lines |-> ls]

\* the function of the spec's scenario: 0x1000, 64 bytes, "foo", one line
SymFoo == Sym("function", TRUE, TRUE, NameFoo, U64(4096), U64(64),
              <<Line(U64(4096), FileA, 10, 0)>>)
SymBar == Sym("function", TRUE, TRUE, NameBar, U64(8192), U64(2), <<>>)
\* an empty range that has line information: two entries of the same file
SymZero == Sym("function", TRUE, TRUE, NameBar, U64(4096), U64(0),
               <<Line(U64(4096), FileB, 7, 0), Line(U64(4100), FileB, 8, 1)>>)
\* a range of 2^32 bytes
SymHuge == Sym("function", TRUE, TRUE, NameBar, U64(8192), <<0, 0, 1, 0>>, <<>>)
SymData == Sym("data", TRUE, TRUE, NameBar, U64(8192), U64(2), <<>>)
SymNoType == Sym("error", TRUE, TRUE, NameBar, U64(8192), U64(2), <<>>)
SymNoName == Sym("function", FALSE, TRUE, NameBar, U64(8192), U64(2), <<>>)
SymNoAddr == Sym("function", TRUE, FALSE, NameBar, U64(8192), U64(2), <<>>)

\* the objects the host emits: the symbols computeSymbolSizes yields
Objects ==
    { <<SymFoo>>, <<SymZero>>, <<SymHuge>>,
      <<SymData, SymNoType, SymNoName, SymNoAddr, SymBar>> }

\* ------------------------------------------------------------- the state
VARIABLES
    ctorPc,                  \* position of the constructor
    initFailure,             \* the initialization step that failed, or "none"
    SuccessfullyInitialized,
    MarkerAddr,              \* "NULL", "MAPPED" or "MAP_FAILED"
    DumpFd,                  \* "closed" (-1) or "open"
    CodeGeneration,
    log,                     \* the chunks written to Dumpstream, in order
    hasError,                \* Dumpstream->has_error()
    clock,                   \* CLOCK_MONOTONIC, in ticks
    pc,                      \* per thread: position in NotifyObjectEmitted
    obj,                     \* per thread: the symbols of the object
    symIdx,                  \* per thread: the loop's position in obj
    lineIdx,                 \* per thread: the iterator It of NotifyDebug
    rec,                     \* per thread: the record being built
    base,                    \* per thread: the events before those of its object
    events,                  \* the symbols handed to an initialized listener, in order
    nCalls,                  \* calls of NotifyObjectEmitted so far
    nFreed,                  \* calls of NotifyFreeingObject so far
    failed,                  \* the events one of whose writes failed
    nFaults,                 \* writes that failed so far
    crashed,                 \* the process was killed by a fault
    destroyed,               \* the destructor has run
    munmaps                  \* the arguments of the munmap calls issued

vars == <<ctorPc, initFailure, SuccessfullyInitialized, MarkerAddr, DumpFd,
          CodeGeneration, log, hasError, clock, pc, obj, symIdx, lineIdx, rec,
          base, events, nCalls, nFreed, failed, nFaults, crashed, destroyed, munmaps>>

shared == <<SuccessfullyInitialized, MarkerAddr, DumpFd, CodeGeneration, log,
            hasError, clock>>
ctorVars == <<ctorPc, initFailure>>
threadVars == <<pc, obj, symIdx, lineIdx, rec, base>>
ghostVars == <<events, nCalls, nFreed, failed, nFaults, crashed, destroyed, munmaps>>

NoRec == [ev |-> 0, ts |-> 0, total |-> U64(0), index |-> 0]

Init ==
    /\ ctorPc = "clock"
    /\ initFailure = "none"
    /\ SuccessfullyInitialized = FALSE
    /\ MarkerAddr = "NULL"
    /\ DumpFd = "closed"
    /\ CodeGeneration = 1
    /\ log = <<>>
    /\ hasError = FALSE
    /\ clock = 1
    /\ pc = [t \in Threads |-> "idle"]
    /\ obj = [t \in Threads |-> <<>>]
    /\ symIdx = [t \in Threads |-> 0]
    /\ lineIdx = [t \in Threads |-> 0]
    /\ rec = [t \in Threads |-> NoRec]
    /\ base = [t \in Threads |-> 0]
    /\ events = <<>>
    /\ nCalls = 0
    /\ nFreed = 0
    /\ failed = {}
    /\ nFaults = 0
    /\ crashed = FALSE
    /\ destroyed = FALSE
    /\ munmaps = <<>>

\* a chunk of the stream: its kind, the event it belongs to (0 for the
\* header), its fields or bytes, and its size in bytes
Chunk(k, e, d, n) == [k |-> k, ev |-> e, d |-> d, n |-> n]

\* ------------------------------------------------------------ the stream
\* the outcomes of one Dumpstream->write: TRUE, or FALSE for an I/O error
WriteOutcomes == {TRUE} \cup (IF nFaults < MaxFaults THEN {FALSE} ELSE {})

\* Dumpstream->write(...): the bytes are appended, or on an I/O error the
\* stream records the error and the bytes are lost; no caller looks at the
\* outcome except the constructor
Write(c, ok) ==
    /\ log' = IF ok THEN Append(log, c) ELSE log
    /\ hasError' = (hasError \/ ~ok)
    /\ nFaults' = IF ok THEN nFaults ELSE nFaults + 1
    /\ failed' = IF ok THEN failed ELSE failed \cup {c.ev}

\* perf_get_timestamp(): the reading of the monotonic clock
Timestamp == clock
Tick == clock' = clock + 1

\* ------------------------------------------------------- the constructor
\* the header written before the marker is opened
CtorSteps_HeaderFirst == <<"clock", "dir", "open", "machine", "header", "marker">>

\* the steps of the constructor, in the order of its statements
CtorSteps == <<"clock", "dir", "open", "machine", "marker", "header">>

\* the step after `step`, or "done" at the end of the constructor
NextStep(step) ==
    LET i == CHOOSE j \in DOMAIN CtorSteps : CtorSteps[j] = step
    IN  IF i = Len(CtorSteps) THEN "done" ELSE CtorSteps[i + 1]

CtorFail(step) ==
    /\ ctorPc' = "done"
    /\ initFailure' = step

\* if(!perf_get_timestamp()) return;
CtorClock ==
    /\ ctorPc = "clock"
    /\ \E ok \in BOOLEAN :
         IF ok THEN ctorPc' = NextStep("clock") /\ Tick /\ UNCHANGED initFailure
               ELSE CtorFail("clock") /\ UNCHANGED clock
    /\ UNCHANGED <<SuccessfullyInitialized, MarkerAddr, DumpFd, CodeGeneration,
                   log, hasError, threadVars, ghostVars>>

\* if(!InitDebuggingDir()) return;
CtorDir ==
    /\ ctorPc = "dir"
    /\ \E ok \in BOOLEAN :
         IF ok THEN ctorPc' = NextStep("dir") /\ UNCHANGED initFailure
               ELSE CtorFail("dir")
    /\ UNCHANGED <<shared, threadVars, ghostVars>>

\* openFileForWrite(..., DumpFd, ...); Dumpstream = make_unique<...>(DumpFd, true)
CtorOpen ==
    /\ ctorPc = "open"
    /\ \E ok \in BOOLEAN :
         IF ok THEN /\ ctorPc' = NextStep("open")
                    /\ DumpFd' = "open"
                    /\ UNCHANGED initFailure
               ELSE CtorFail("open") /\ UNCHANGED DumpFd
    /\ UNCHANGED <<SuccessfullyInitialized, MarkerAddr, CodeGeneration, log,
                   hasError, clock, threadVars, ghostVars>>

\* if (!FillMachine(Header)) return;
CtorMachine ==
    /\ ctorPc = "machine"
    /\ \E ok \in BOOLEAN :
         IF ok THEN ctorPc' = NextStep("machine") /\ UNCHANGED initFailure
               ELSE CtorFail("machine")
    /\ UNCHANGED <<shared, threadVars, ghostVars>>

\* what mmap returned not looked at
MarkerOk_Ignored(r) == TRUE

\* if (MarkerAddr == MAP_FAILED) { errs() << ...; return false; }
MarkerOk(r) == r # "MAP_FAILED"

\* OpenMarker(): MarkerAddr takes what mmap returns, MAP_FAILED included
OpenMarker ==
    /\ ctorPc = "marker"
    /\ \E r \in {"MAPPED", "MAP_FAILED"} :
         /\ MarkerAddr' = r
         /\ IF MarkerOk(r) THEN ctorPc' = NextStep("marker") /\ UNCHANGED initFailure
                           ELSE CtorFail("marker")
    /\ UNCHANGED <<SuccessfullyInitialized, DumpFd, CodeGeneration, log,
                   hasError, clock, threadVars, ghostVars>>

HeaderChunk(ts) ==
    Chunk("Header", 0,
          [Version |-> LLVM_PERF_JIT_VERSION, TotalSize |-> U64(SizeofHeader),
           Timestamp |-> ts],
          U64(SizeofHeader))

\* the flag set without looking at the stream's error
InitializedAfterHeader_Ignored(err) == TRUE

\* if (!Dumpstream->has_error()) SuccessfullyInitialized = true;
InitializedAfterHeader(err) == ~err

\* the header is filled and written, then the stream's error flag decides
CtorHeader ==
    /\ ctorPc = "header"
    /\ \E ok \in WriteOutcomes :
         /\ Write(HeaderChunk(Timestamp), ok)
         /\ SuccessfullyInitialized' = InitializedAfterHeader(hasError')
         /\ initFailure' = IF ok THEN "none" ELSE "header"
    /\ Tick
    /\ ctorPc' = NextStep("header")
    /\ UNCHANGED <<MarkerAddr, DumpFd, CodeGeneration, threadVars, events,
                   nCalls, nFreed, crashed, destroyed, munmaps>>

\* --------------------------------------------------- NotifyObjectEmitted
Running == ctorPc = "done" /\ ~crashed /\ ~destroyed

Cur(t) == obj[t][symIdx[t]]

\* the test on the symbol's type left out
Skipped_AnyType(s) == ~s.nameOk \/ ~s.addrOk

\* the symbols the loop passes over with `continue`
Skipped(s) == s.type # "function" \/ ~s.nameOk \/ ~s.addrOk

\* the entry check left out
EntryAllowed_Unchecked == TRUE

\* the entry check the wrong way round
EntryAllowed_Inverted == ~SuccessfullyInitialized

\* if(!SuccessfullyInitialized) return;
EntryAllowed == SuccessfullyInitialized

\* the threads are interchangeable: of two idle threads the first calls
Caller(t) == pc[t] = "idle" /\ (t = "t1" \/ pc["t1"] # "idle")

NotifyObjectEmitted(t) ==
    /\ Running
    /\ Caller(t)
    /\ nCalls < MaxCalls
    /\ nCalls' = nCalls + 1
    /\ \E o \in Objects :
         IF EntryAllowed
         THEN /\ pc' = [pc EXCEPT ![t] = "loop"]
              /\ obj' = [obj EXCEPT ![t] = o]
              /\ symIdx' = [symIdx EXCEPT ![t] = 1]
              /\ base' = [base EXCEPT ![t] = Len(events)]
              /\ events' = events \o o
         ELSE UNCHANGED <<pc, obj, symIdx, base, events>>
    /\ UNCHANGED <<ctorVars, shared, lineIdx, rec, nFreed, failed, nFaults,
                   crashed, destroyed, munmaps>>

\* the two calls the other way round
CallOrder_Swapped == <<"code", "debug">>

\* NotifyDebug(Addr, Lines); NotifyCode(Name, Addr, Size);
CallOrder == <<"debug", "code">>

\* where a thread goes when the call `from` returns: into the second call,
\* or to the next symbol
Return(t, from) ==
    IF from = CallOrder[1]
    THEN /\ pc' = [pc EXCEPT ![t] = CallOrder[2]]
         /\ UNCHANGED symIdx
    ELSE /\ pc' = [pc EXCEPT ![t] = "loop"]
         /\ symIdx' = [symIdx EXCEPT ![t] = @ + 1]

\* the head of the loop over computeSymbolSizes(DebugObj): the symbol is
\* passed over, or its address, size and line table are taken
LoopSymbol(t) ==
    /\ Running
    /\ pc[t] = "loop"
    /\ IF symIdx[t] > Len(obj[t])
       THEN /\ pc' = [pc EXCEPT ![t] = "flush"]
            /\ UNCHANGED <<symIdx, rec>>
       ELSE IF Skipped(Cur(t))
       THEN /\ symIdx' = [symIdx EXCEPT ![t] = @ + 1]
            /\ UNCHANGED <<pc, rec>>
       ELSE /\ rec' = [rec EXCEPT ![t] = [NoRec EXCEPT !.ev = base[t] + symIdx[t]]]
            /\ pc' = [pc EXCEPT ![t] = CallOrder[1]]
            /\ UNCHANGED symIdx
    /\ UNCHANGED <<ctorVars, shared, obj, base, lineIdx, ghostVars>>

\* Dumpstream->flush(), and the return
Flush(t) ==
    /\ Running
    /\ pc[t] = "flush"
    /\ pc' = [pc EXCEPT ![t] = "idle"]
    /\ UNCHANGED <<ctorVars, shared, obj, base, symIdx, lineIdx, rec, ghostVars>>

\* ------------------------------------------------------------ NotifyDebug
\* the loop that adds each entry's size to rec.Prefix.TotalSize
RECURSIVE DebugEntriesSize(_)
DebugEntriesSize(lines) ==
    IF lines = <<>> THEN U64(0)
    ELSE Add64(U64(SizeofDebugEntry + Len(Head(lines).file) + 1),
               DebugEntriesSize(Tail(lines)))

DebugTotalSize(lines) ==
    Trunc32(Add64(U64(SizeofDebugInfo), DebugEntriesSize(lines)))

\* if (Lines.empty()) return;
DebugWanted(s) == s.lines # <<>>

\* the record is filled: the timestamp is taken and the size computed
NotifyDebug(t) ==
    /\ Running
    /\ pc[t] = "debug"
    /\ IF DebugWanted(Cur(t))
       THEN /\ rec' = [rec EXCEPT ![t].ts = Timestamp,
                                  ![t].total = DebugTotalSize(Cur(t).lines)]
            /\ Tick
            /\ pc' = [pc EXCEPT ![t] = "dbg_rec"]
            /\ UNCHANGED symIdx
       ELSE /\ Return(t, "debug")
            /\ UNCHANGED <<rec, clock>>
    /\ UNCHANGED <<ctorVars, SuccessfullyInitialized, MarkerAddr, DumpFd,
                   CodeGeneration, log, hasError, obj, base, lineIdx, ghostVars>>

DebugInfoChunk(r, s) ==
    Chunk("DebugInfo", r.ev,
          [Id |-> JIT_CODE_DEBUG_INFO, TotalSize |-> r.total, Timestamp |-> r.ts,
           CodeAddr |-> s.addr, NrEntry |-> Len(s.lines)],
          U64(SizeofDebugInfo))

\* Dumpstream->write(&rec, sizeof(rec))
DebugWriteRec(t) ==
    /\ Running
    /\ pc[t] = "dbg_rec"
    /\ \E ok \in WriteOutcomes : Write(DebugInfoChunk(rec[t], Cur(t)), ok)
    /\ lineIdx' = [lineIdx EXCEPT ![t] = 1]
    /\ pc' = [pc EXCEPT ![t] = "dbg_entry"]
    /\ UNCHANGED <<ctorVars, SuccessfullyInitialized, MarkerAddr, DumpFd,
                   CodeGeneration, clock, obj, base, symIdx, rec, events, nCalls, nFreed,
                   crashed, destroyed, munmaps>>

\* the address written as the line table has it
DebugEntryAddr_NoOffset(a) == a

\* LineInfo.Addr = It->first; LineInfo.Addr += 0x40;
DebugEntryAddr(a) == Add64(a, U64(ElfHeaderOffset))

DebugEntryChunk(e, l) ==
    Chunk("DebugEntry", e,
          [Addr |-> DebugEntryAddr(l.addr), Lineno |-> l.line, Discrim |-> l.discrim],
          U64(SizeofDebugEntry))

\* Dumpstream->write(&LineInfo, sizeof(LineInfo))
DebugWriteEntry(t) ==
    /\ Running
    /\ pc[t] = "dbg_entry"
    /\ \E ok \in WriteOutcomes :
         Write(DebugEntryChunk(rec[t].ev, Cur(t).lines[lineIdx[t]]), ok)
    /\ pc' = [pc EXCEPT ![t] = "dbg_file"]
    /\ UNCHANGED <<ctorVars, SuccessfullyInitialized, MarkerAddr, DumpFd,
                   CodeGeneration, clock, obj, base, symIdx, lineIdx, rec, events,
                   nCalls, nFreed, crashed, destroyed, munmaps>>

StringChunk(k, e, s) == Chunk(k, e, CStr(s), U64(Len(s) + 1))

\* Dumpstream->write(Line.FileName.c_str(), Line.FileName.size() + 1), ++It
DebugWriteFile(t) ==
    /\ Running
    /\ pc[t] = "dbg_file"
    /\ \E ok \in WriteOutcomes :
         Write(StringChunk("File", rec[t].ev, Cur(t).lines[lineIdx[t]].file), ok)
    /\ lineIdx' = [lineIdx EXCEPT ![t] = @ + 1]
    /\ IF lineIdx[t] + 1 > Len(Cur(t).lines)
       THEN Return(t, "debug")
       ELSE pc' = [pc EXCEPT ![t] = "dbg_entry"] /\ UNCHANGED symIdx
    /\ UNCHANGED <<ctorVars, SuccessfullyInitialized, MarkerAddr, DumpFd,
                   CodeGeneration, clock, obj, base, rec, events, nCalls, nFreed,
                   crashed, destroyed, munmaps>>

\* ------------------------------------------------------------- NotifyCode
\* rec.Prefix.TotalSize = sizeof(rec) + Symbol->size() + 1 + CodeSize;
CodeLoadTotalSize(s) ==
    Trunc32(Add64(Add64(U64(SizeofCodeLoad), U64(Len(s.name) + 1)), s.size))

\* the test on the size inverted
CodeWanted_Inverted(s) == s.size = U64(0)

\* if (CodeSize == 0) return;
CodeWanted(s) == s.size # U64(0)

NotifyCode(t) ==
    /\ Running
    /\ pc[t] = "code"
    /\ IF CodeWanted(Cur(t))
       THEN /\ rec' = [rec EXCEPT ![t].ts = Timestamp,
                                  ![t].total = CodeLoadTotalSize(Cur(t))]
            /\ Tick
            /\ pc' = [pc EXCEPT ![t] = "gen_load"]
            /\ UNCHANGED symIdx
       ELSE /\ Return(t, "code")
            /\ UNCHANGED <<rec, clock>>
    /\ UNCHANGED <<ctorVars, SuccessfullyInitialized, MarkerAddr, DumpFd,
                   CodeGeneration, log, hasError, obj, base, lineIdx, ghostVars>>

\* rec.CodeIndex = CodeGeneration++ is a load and a store of a plain
\* uint64_t: the load
CodeGenerationLoad(t) ==
    /\ Running
    /\ pc[t] = "gen_load"
    /\ rec' = [rec EXCEPT ![t].index = CodeGeneration]
    /\ pc' = [pc EXCEPT ![t] = "gen_store"]
    /\ UNCHANGED <<ctorVars, shared, obj, base, symIdx, lineIdx, ghostVars>>

\* the counter moved by two
NextGeneration_Twice(g) == g + 2

\* CodeGeneration++
NextGeneration(g) == g + 1

\* ... and the store
CodeGenerationStore(t) ==
    /\ Running
    /\ pc[t] = "gen_store"
    /\ CodeGeneration' = NextGeneration(rec[t].index)
    /\ pc' = [pc EXCEPT ![t] = "code_rec"]
    /\ UNCHANGED <<ctorVars, SuccessfullyInitialized, MarkerAddr, DumpFd, log,
                   hasError, clock, obj, base, symIdx, lineIdx, rec, ghostVars>>

CodeLoadChunk(r, s) ==
    Chunk("CodeLoad", r.ev,
          [Id |-> JIT_CODE_LOAD, TotalSize |-> r.total, Timestamp |-> r.ts,
           Vma |-> U64(0), CodeAddr |-> s.addr, CodeSize |-> s.size,
           CodeIndex |-> r.index],
          U64(SizeofCodeLoad))

\* Dumpstream->write(&rec, sizeof(rec))
CodeWriteRec(t) ==
    /\ Running
    /\ pc[t] = "code_rec"
    /\ \E ok \in WriteOutcomes : Write(CodeLoadChunk(rec[t], Cur(t)), ok)
    /\ pc' = [pc EXCEPT ![t] = "code_name"]
    /\ UNCHANGED <<ctorVars, SuccessfullyInitialized, MarkerAddr, DumpFd,
                   CodeGeneration, clock, obj, base, symIdx, lineIdx, rec, events,
                   nCalls, nFreed, crashed, destroyed, munmaps>>

\* Dumpstream->write(Symbol->data(), Symbol->size() + 1)
CodeWriteName(t) ==
    /\ Running
    /\ pc[t] = "code_name"
    /\ \E ok \in WriteOutcomes : Write(StringChunk("Name", rec[t].ev, Cur(t).name), ok)
    /\ pc' = [pc EXCEPT ![t] = "code_bytes"]
    /\ UNCHANGED <<ctorVars, SuccessfullyInitialized, MarkerAddr, DumpFd,
                   CodeGeneration, clock, obj, base, symIdx, lineIdx, rec, events,
                   nCalls, nFreed, crashed, destroyed, munmaps>>

CodeBytesChunk(e, s) == Chunk("Code", e, <<>>, s.size)

\* Dumpstream->write(reinterpret_cast<const char *>(CodeAddr), CodeSize):
\* the bytes are read straight from the range.  Reading a range that is
\* not mapped either kills the process (the copy into the stream's buffer
\* faults) or fails the write with EFAULT (the range is handed to write(2)),
\* which leaves the stream as any other I/O error does.
CodeWriteBytes(t) ==
    /\ Running
    /\ pc[t] = "code_bytes"
    /\ \/ /\ \E ok \in WriteOutcomes : Write(CodeBytesChunk(rec[t].ev, Cur(t)), ok)
          /\ UNCHANGED crashed
       \/ /\ nFaults < MaxFaults
          /\ crashed' = TRUE
          /\ nFaults' = nFaults + 1
          /\ failed' = failed \cup {rec[t].ev}
          /\ UNCHANGED <<log, hasError>>
    /\ Return(t, "code")
    /\ UNCHANGED <<ctorVars, SuccessfullyInitialized, MarkerAddr, DumpFd,
                   CodeGeneration, clock, obj, base, lineIdx, rec, events, nCalls, nFreed,
                   destroyed, munmaps>>

\* ---------------------------------------------------------- the destructor
\* the marker unmapped when an object is freed
NotifyFreeingObject_Unmaps(t) ==
    /\ Running
    /\ pc[t] = "idle"
    /\ nFreed < MaxFreed
    /\ nFreed' = nFreed + 1
    /\ MarkerAddr' = "NULL"
    /\ munmaps' = Append(munmaps, MarkerAddr)
    /\ UNCHANGED <<ctorVars, SuccessfullyInitialized, DumpFd, CodeGeneration,
                   log, hasError, clock, threadVars, events, nCalls, failed,
                   nFaults, crashed, destroyed>>

\* NotifyFreeingObject(const ObjectFile &): the body holds a comment only
NotifyFreeingObject(t) ==
    /\ Running
    /\ pc[t] = "idle"
    /\ nFreed < MaxFreed
    /\ nFreed' = nFreed + 1
    /\ UNCHANGED <<ctorVars, shared, threadVars, events, nCalls, failed,
                   nFaults, crashed, destroyed, munmaps>>

\* CloseMarker(): if (!MarkerAddr) return; munmap(MarkerAddr, ...); MarkerAddr = nullptr
CloseMarker ==
    IF MarkerAddr = "NULL"
    THEN UNCHANGED <<MarkerAddr, munmaps>>
    ELSE /\ munmaps' = Append(munmaps, MarkerAddr)
         /\ MarkerAddr' = "NULL"

\* ~PerfJITEventListener(): if(MarkerAddr) CloseMarker(); then the members
\* are destroyed, Dumpstream closing the descriptor it owns
Destroy ==
    /\ Running
    /\ \A t \in Threads : pc[t] = "idle"
    /\ IF MarkerAddr # "NULL" THEN CloseMarker ELSE UNCHANGED <<MarkerAddr, munmaps>>
    /\ DumpFd' = "closed"
    /\ destroyed' = TRUE
    /\ UNCHANGED <<ctorVars, SuccessfullyInitialized, CodeGeneration, log,
                   hasError, clock, threadVars, events, nCalls, nFreed, failed, nFaults,
                   crashed>>

\* ------------------------------------------------------ the specification
Next ==
    \/ CtorClock
    \/ CtorDir
    \/ CtorOpen
    \/ CtorMachine
    \/ OpenMarker
    \/ CtorHeader
    \/ \E t \in Threads : NotifyObjectEmitted(t)
    \/ \E t \in Threads : NotifyFreeingObject(t)
    \/ \E t \in Threads : LoopSymbol(t)
    \/ \E t \in Threads : NotifyDebug(t)
    \/ \E t \in Threads : DebugWriteRec(t)
    \/ \E t \in Threads : DebugWriteEntry(t)
    \/ \E t \in Threads : DebugWriteFile(t)
    \/ \E t \in Threads : NotifyCode(t)
    \/ \E t \in Threads : CodeGenerationLoad(t)
    \/ \E t \in Threads : CodeGenerationStore(t)
    \/ \E t \in Threads : CodeWriteRec(t)
    \/ \E t \in Threads : CodeWriteName(t)
    \/ \E t \in Threads : CodeWriteBytes(t)
    \/ \E t \in Threads : Flush(t)
    \/ Destroy

\* the listener as it is: it takes no lock, and the host's compilation
\* threads call it as they finish
Spec == Init /\ [][Next]_vars

\* a host that holds its own lock around the listener: a call starts only
\* when no other call is under way
SerialCall(t) ==
    /\ \A u \in Threads : pc[u] = "idle"
    /\ NotifyObjectEmitted(t)

\* likewise for NotifyFreeingObject
SerialFree(t) ==
    /\ \A u \in Threads : pc[u] = "idle"
    /\ t = "t1"
    /\ NotifyFreeingObject(t)

NextSerial ==
    \/ CtorClock
    \/ CtorDir
    \/ CtorOpen
    \/ CtorMachine
    \/ OpenMarker
    \/ CtorHeader
    \/ \E t \in Threads : SerialCall(t)
    \/ \E t \in Threads : SerialFree(t)
    \/ \E t \in Threads : LoopSymbol(t)
    \/ \E t \in Threads : NotifyDebug(t)
    \/ \E t \in Threads : DebugWriteRec(t)
    \/ \E t \in Threads : DebugWriteEntry(t)
    \/ \E t \in Threads : DebugWriteFile(t)
    \/ \E t \in Threads : NotifyCode(t)
    \/ \E t \in Threads : CodeGenerationLoad(t)
    \/ \E t \in Threads : CodeGenerationStore(t)
    \/ \E t \in Threads : CodeWriteRec(t)
    \/ \E t \in Threads : CodeWriteName(t)
    \/ \E t \in Threads : CodeWriteBytes(t)
    \/ \E t \in Threads : Flush(t)
    \/ Destroy

SpecSerial == Init /\ [][NextSerial]_vars

\* ---------------------------------------------------- reading the stream
DebugKinds == {"DebugInfo", "DebugEntry", "File"}
CodeKinds == {"CodeLoad", "Name", "Code"}

\* the record a chunk is part of: the event, and which of its two records
RecordOf(c) ==
    <<c.ev, IF c.k \in DebugKinds THEN "debug"
            ELSE IF c.k \in CodeKinds THEN "code" ELSE "header">>

ChunksOf(e, ks) == {i \in DOMAIN log : log[i].ev = e /\ log[i].k \in ks}

\* the bytes written for the chunks of kinds ks of event e
RECURSIVE BytesOf(_, _, _)
BytesOf(s, e, ks) ==
    IF s = <<>> THEN U64(0)
    ELSE Add64(IF Head(s).ev = e /\ Head(s).k \in ks THEN Head(s).n ELSE U64(0),
               BytesOf(Tail(s), e, ks))

\* a symbol whose type, name and address the providers supply
Available(s) == s.type = "function" /\ s.nameOk /\ s.addrOk

\* event e is still ahead of, or under, the loop of some call
Pending(e) ==
    \E t \in Threads :
        /\ pc[t] # "idle"
        /\ e - base[t] \in symIdx[t]..Len(obj[t])

Finished(e) == e \in DOMAIN events /\ ~Pending(e)

Quiescent == ctorPc = "done" /\ \A t \in Threads : pc[t] = "idle"

\* ----- a reader of the stream, as the profiler reads it: the header, then
\* records, each found by skipping the TotalSize of the one before
Bytes(a, b) == Sum64([k \in 1..(b - a + 1) |-> log[a + k - 1].n])

\* the chunk at which the record that starts at chunk i and is total bytes
\* long ends; 0 if the stream has no chunk boundary there
NextIndex(i, total) ==
    LET ends == {j \in (i + 1)..(Len(log) + 1) : Bytes(i, j - 1) = total}
    IN  IF ends = {} THEN 0 ELSE CHOOSE j \in ends : TRUE

RECURSIVE UntilNul(_)
UntilNul(b) ==
    IF b = <<>> \/ Head(b) = NUL THEN <<>> ELSE <<Head(b)>> \o UntilNul(Tail(b))

Item(kind, a, sz, nm, es) ==
    [kind |-> kind, addr |-> a, size |-> sz, name |-> nm, entries |-> es]

Unreadable == Item("unreadable", U64(0), U64(0), <<>>, <<>>)

ReadRecord(i, j) ==
    LET c == log[i] IN
    IF c.k = "CodeLoad"
    THEN IF j = i + 3 /\ log[i + 1].k = "Name" /\ log[i + 2].k = "Code"
              /\ log[i + 2].n = c.d.CodeSize
         THEN Item("load", c.d.CodeAddr, c.d.CodeSize, UntilNul(log[i + 1].d), <<>>)
         ELSE Unreadable
    ELSE IF /\ j = i + 1 + 2 * c.d.NrEntry
            /\ \A m \in 1..c.d.NrEntry :
                 log[i + 2 * m - 1].k = "DebugEntry" /\ log[i + 2 * m].k = "File"
         THEN Item("debug", c.d.CodeAddr, U64(0), <<>>,
                   [m \in 1..c.d.NrEntry |->
                      <<log[i + 2 * m - 1].d.Addr, log[i + 2 * m - 1].d.Lineno,
                        log[i + 2 * m - 1].d.Discrim, UntilNul(log[i + 2 * m].d)>>])
         ELSE Unreadable

RECURSIVE ReadFrom(_)
ReadFrom(i) ==
    IF i = Len(log) + 1 THEN <<>>
    ELSE IF i = 0 \/ log[i].k \notin {"CodeLoad", "DebugInfo"} THEN <<Unreadable>>
    ELSE LET j == NextIndex(i, log[i].d.TotalSize)
         IN  IF j = 0 THEN <<Unreadable>> ELSE <<ReadRecord(i, j)>> \o ReadFrom(j)

ReadLog ==
    IF log = <<>> \/ log[1].k # "Header" THEN <<Unreadable>>
    ELSE ReadFrom(NextIndex(1, log[1].d.TotalSize))

\* what the events are to read back as: the line entries moved by 0x40,
\* then the range and its name; nothing for an empty range
EmittedOf(s) ==
    IF ~Available(s) \/ s.size = U64(0) THEN <<>>
    ELSE (IF s.lines = <<>> THEN <<>>
          ELSE <<Item("debug", s.addr, U64(0), <<>>,
                      [m \in DOMAIN s.lines |->
                         <<Add64(s.lines[m].addr, U64(64)), s.lines[m].line,
                           s.lines[m].discrim, s.lines[m].file>>])>>)
         \o <<Item("load", s.addr, s.size, s.name, <<>>)>>

RECURSIVE EmittedAll(_)
EmittedAll(es) == IF es = <<>> THEN <<>> ELSE EmittedOf(Head(es)) \o EmittedAll(Tail(es))

\* ------------------------------------------------------------ the claims

\* C1: under concurrent calls the bytes of each record are contiguous: no
\* chunk of another record lies between two chunks of one record.
C1_RecordsContiguous ==
    \A i, j \in DOMAIN log :
        (i < j /\ RecordOf(log[i]) = RecordOf(log[j]))
            => \A m \in i..j : RecordOf(log[m]) = RecordOf(log[i])

\* C2: read in stream order, the CodeIndex values of the code-load records
\* are strictly increasing, whatever the interleaving of the calls.
C2_CodeIndexIncreasing ==
    \A i, j \in DOMAIN log :
        (i < j /\ log[i].k = "CodeLoad" /\ log[j].k = "CodeLoad")
            => log[i].d.CodeIndex < log[j].d.CodeIndex

\* C3: for an event with a non-empty line table, every chunk of its
\* debug-info record lies before its code-load record, and a code-load
\* record none of whose event's writes failed has the debug-info record of
\* the same address before it.
C3_DebugBeforeCode ==
    \A j \in DOMAIN log :
        (log[j].k = "CodeLoad" /\ events[log[j].ev].lines # <<>>)
            => /\ \A i \in ChunksOf(log[j].ev, DebugKinds) : i < j
               /\ log[j].ev \notin failed
                    => \E i \in 1..(j - 1) :
                          /\ log[i].k = "DebugInfo"
                          /\ log[i].ev = log[j].ev
                          /\ log[i].d.CodeAddr = log[j].d.CodeAddr

C3_Witness ==
    \E j \in DOMAIN log :
        /\ log[j].k = "CodeLoad"
        /\ events[log[j].ev].lines # <<>>
        /\ log[j].ev \notin failed
        /\ ChunksOf(log[j].ev, {"DebugInfo"}) # {}

\* C4: an event whose range is empty leaves no chunk of any kind in the log.
C4_NothingForEmptyRange ==
    \A i \in DOMAIN log :
        log[i].ev # 0 => events[log[i].ev].size # U64(0)

\* C5: the TotalSize of every record written whole is the number of bytes
\* written for it, whatever the code size.
C5_TotalSizeIsBytesWritten ==
    \A i \in DOMAIN log :
        (log[i].k \in {"CodeLoad", "DebugInfo"} /\ Finished(log[i].ev)
            /\ log[i].ev \notin failed)
            => log[i].d.TotalSize =
                 BytesOf(log, log[i].ev,
                         IF log[i].k = "CodeLoad" THEN CodeKinds ELSE DebugKinds)

\* C6: a function symbol with a non-empty range whose type, name and address
\* are available never has two code-load records, and once its event is over
\* with no write failed it has exactly one, with its address, its size and,
\* after it, its NUL-terminated name.
C6_OneCodeLoadPerSymbol ==
    \A e \in DOMAIN events :
        (Available(events[e]) /\ events[e].size # U64(0))
            => /\ Cardinality(ChunksOf(e, {"CodeLoad"})) <= 1
               /\ (Finished(e) /\ e \notin failed)
                    => /\ Cardinality(ChunksOf(e, {"CodeLoad"})) = 1
                       /\ Cardinality(ChunksOf(e, {"Name"})) = 1
                       /\ \A i \in ChunksOf(e, {"CodeLoad"}) :
                            /\ log[i].d.CodeAddr = events[e].addr
                            /\ log[i].d.CodeSize = events[e].size
                            /\ \A n \in ChunksOf(e, {"Name"}) :
                                 n > i /\ log[n].d = events[e].name \o <<0>>

C6_Witness ==
    \E e \in DOMAIN events :
        /\ Available(events[e]) /\ events[e].size # U64(0)
        /\ Finished(e) /\ e \notin failed
        /\ ChunksOf(e, {"CodeLoad"}) # {}

\* C7: when a step of the initialization failed the listener is not
\* initialized, the log holds no record and CodeGeneration has not moved,
\* whatever was emitted since; and an initialized listener had no step fail.
C7_FailedInitIsInert ==
    /\ (ctorPc = "done" /\ initFailure # "none")
          => /\ ~SuccessfullyInitialized
             /\ \A i \in DOMAIN log : log[i].k = "Header"
             /\ CodeGeneration = 1
             /\ events = <<>>
    /\ SuccessfullyInitialized => (ctorPc = "done" /\ initFailure = "none")

C7_Witness ==
    ctorPc = "done" /\ initFailure = "header" /\ nCalls = MaxCalls

\* C8: a non-empty log starts with the header, and holds no second header.
C8_OneHeaderFirst ==
    log # <<>> =>
        /\ log[1].k = "Header"
        /\ \A i \in DOMAIN log : i > 1 => log[i].k # "Header"

C8_Witness == Len(log) > 1 /\ nCalls = MaxCalls

\* C9: an event one of whose writes failed is dropped whole: the process
\* goes on, and once the event is over the log holds no chunk of it.
C9_FailedEventDropped ==
    \A e \in failed \ {0} :
        /\ ~crashed
        /\ Finished(e) => \A i \in DOMAIN log : log[i].ev # e

\* C10: once the calls are over and no write failed, reading the log by
\* TotalSize yields, in order, what was emitted.
C10_RoundTrip ==
    (Quiescent /\ SuccessfullyInitialized /\ failed = {} /\ ~crashed)
        => ReadLog = EmittedAll(events)

\* the same for runs whose ranges are neither empty nor 2^32 bytes or more
WellSized(s) == s.size # U64(0) /\ s.size[3] = 0 /\ s.size[4] = 0

RoundTripOfWellSized ==
    (Quiescent /\ SuccessfullyInitialized /\ failed = {} /\ ~crashed
        /\ \A e \in DOMAIN events : WellSized(events[e]))
        => ReadLog = EmittedAll(events)

\* C11: a symbol whose type, name or address is unavailable, or that is no
\* function, leaves no chunk in the log and does not move CodeGeneration;
\* the listener stays initialized, and the symbols and events after it are
\* written.
AllKinds == DebugKinds \cup CodeKinds

C11_SkippedSymbolOnly ==
    \A e \in DOMAIN events :
        ~Available(events[e])
            => /\ ChunksOf(e, AllKinds) = {}
               /\ SuccessfullyInitialized
               /\ Quiescent
                    => CodeGeneration - 1 =
                         Cardinality({f \in DOMAIN events :
                                        Available(events[f]) /\ events[f].size # U64(0)})
               /\ \A f \in DOMAIN events :
                    (f > e /\ Available(events[f]) /\ events[f].size # U64(0)
                       /\ Finished(f) /\ f \notin failed)
                        => ChunksOf(f, {"CodeLoad"}) # {}

C11_Witness ==
    \E e, f \in DOMAIN events :
        /\ e < f /\ ~Available(events[e]) /\ Finished(f)
        /\ ChunksOf(f, {"CodeLoad"}) # {}
        /\ Quiescent

\* the session state the listener is in: under construction, inert after a
\* failed initialization, active, or closed by the destructor
SessionState ==
    IF ctorPc # "done" THEN "Initializing"
    ELSE IF destroyed THEN "Closed"
    ELSE IF SuccessfullyInitialized THEN "Active"
    ELSE "Inert"

\* C12: whenever the session is Active the marker is mapped: it is mapped
\* before the session becomes Active and is not unmapped while the session
\* accepts events; the only munmap is the destructor's.
C12_ActiveHasMarker ==
    /\ SessionState = "Active" => MarkerAddr = "MAPPED"
    /\ ~destroyed => munmaps = <<>>

C12_Witness ==
    /\ SessionState = "Active"
    /\ MarkerAddr = "MAPPED"
    /\ nFreed > 0
    /\ \E i \in DOMAIN log : log[i].k = "CodeLoad"
    /\ \E t \in Threads : pc[t] # "idle"

\* C13: a call of NotifyFreeingObject changes nothing, in whatever state the
\* session is: the log, CodeGeneration, the marker, the descriptor and the
\* session state stay as they are; and no record of the stream is a
\* JIT_CODE_CLOSE or a JIT_CODE_MOVE.
RecordIds ==
    {log[i].d.Id : i \in {j \in DOMAIN log : log[j].k \in {"DebugInfo", "CodeLoad"}}}

C13_FreeingIsNoOp ==
    /\ [][nFreed' # nFreed
            => /\ UNCHANGED <<log, hasError, CodeGeneration, MarkerAddr, munmaps,
                              DumpFd, SuccessfullyInitialized, clock>>
               /\ SessionState' = SessionState]_vars
    /\ [](RecordIds \cap {JIT_CODE_CLOSE, JIT_CODE_MOVE} = {})

\* an object freed in an Active session that has written records of both
\* kinds
C13_Witness ==
    /\ nFreed > 0
    /\ SessionState = "Active"
    /\ RecordIds = {JIT_CODE_DEBUG_INFO, JIT_CODE_LOAD}

\* C14: from Inert or Closed no step leads to Active, and no step taken in
\* Inert or Closed writes to the log.
StaysOff ==
    SessionState \in {"Inert", "Closed"}
        => /\ SessionState' \in {"Inert", "Closed"}
           /\ (SessionState = "Closed" => SessionState' = "Closed")
           /\ log' = log

C14_NoReturnToActive == [][StaysOff]_vars

\* an Inert session that was handed every call of the run, then destroyed
C14_Witness ==
    /\ SessionState = "Closed"
    /\ ~SuccessfullyInitialized
    /\ nCalls = MaxCalls
    /\ nFreed = MaxFreed

C16_UnmapOnlyIfMapped ==
    /\ Len(munmaps) <= 1
    /\ munmaps # <<>> => destroyed
    /\ \A i \in DOMAIN munmaps : munmaps[i] = "MAPPED"

\* the positions of the CodeLoad fixed fields in the log, and the rank of
\* one of them among them
CodeLoads == {i \in DOMAIN log : log[i].k = "CodeLoad"}
RankOf(i) == Cardinality({j \in CodeLoads : j <= i})

\* the events that reach the statement that consumes the counter
Consuming(e) == Available(events[e]) /\ events[e].size # U64(0)

\* C17: with the calls serialized CodeGeneration starts at 1 and is consumed
\* once for each CodeLoad record and by nothing else: between calls it
\* stands at one plus the number of events with a CodeLoad record, events of
\* skipped symbols and of empty ranges not counted, and an Inert listener
\* leaves it at 1; when no write failed the k-th CodeLoad record of the
\* stream carries CodeIndex k.
C17_IndexIsRank ==
    /\ CodeGeneration >= 1
    /\ ~SuccessfullyInitialized => CodeGeneration = 1
    /\ Quiescent
         => CodeGeneration = 1 + Cardinality({e \in DOMAIN events : Consuming(e)})
    /\ \A i \in CodeLoads :
         /\ Consuming(log[i].ev)
         /\ log[i].d.CodeIndex =
              Cardinality({e \in 1..log[i].ev : Consuming(e)})
         /\ failed = {} => log[i].d.CodeIndex = RankOf(i)

\* two CodeLoad records with an event between them that has none
C17_Witness ==
    /\ failed = {}
    /\ Quiescent
    /\ CodeGeneration = 3
    /\ \E i, j \in CodeLoads :
         /\ log[i].d.CodeIndex = 1 /\ log[j].d.CodeIndex = 2
         /\ \E e \in DOMAIN events :
              log[i].ev < e /\ e < log[j].ev /\ ~Consuming(e)

\* the chunk after the last entry of the DebugInfo record that starts at i
AfterDebug(i) == i + 1 + 2 * log[i].d.NrEntry

\* C18: an event that was written whole leaves one DebugInfo record when
\* its line table holds entries and none when it is empty; with the calls
\* serialized the DebugInfo record is followed at once by the CodeLoad
\* record of the same event, which carries the same CodeAddr.
C18_DebugThenItsCode ==
    \A e \in DOMAIN events :
        (Available(events[e]) /\ Finished(e) /\ e \notin failed)
            => /\ Cardinality(ChunksOf(e, {"DebugInfo"})) =
                    IF events[e].lines # <<>> THEN 1 ELSE 0
               /\ \A i \in ChunksOf(e, {"DebugInfo"}) :
                    /\ AfterDebug(i) \in DOMAIN log
                    /\ log[AfterDebug(i)].k = "CodeLoad"
                    /\ log[AfterDebug(i)].ev = e
                    /\ log[AfterDebug(i)].d.CodeAddr = log[i].d.CodeAddr

\* the two bytes that stand for "same file as the entry before" in the
\* format, which the program is never to write
SameFileSentinel == <<255, 0>>

\* C19: the DebugInfo record of an event carries as NrEntry the number of
\* entries of its line table, and its entries follow in the table's order:
\* the m-th entry has the m-th address plus 0x40, the m-th line and
\* discriminator, and is followed by the m-th file path in full with its
\* terminating NUL, never by the sentinel.
C19_EntriesAsInTable ==
    \A i \in DOMAIN log :
        (log[i].k = "DebugInfo" /\ Finished(log[i].ev) /\ log[i].ev \notin failed)
            => LET lines == events[log[i].ev].lines IN
               /\ log[i].d.NrEntry = Len(lines)
               /\ ChunksOf(log[i].ev, {"DebugEntry", "File"})
                    = (i + 1)..(i + 2 * Len(lines))
               /\ \A m \in DOMAIN lines :
                    /\ log[i + 2 * m - 1].k = "DebugEntry"
                    /\ log[i + 2 * m - 1].d.Addr = Add64(lines[m].addr, <<64, 0, 0, 0>>)
                    /\ log[i + 2 * m - 1].d.Lineno = lines[m].line
                    /\ log[i + 2 * m - 1].d.Discrim = lines[m].discrim
                    /\ log[i + 2 * m].k = "File"
                    /\ log[i + 2 * m].d = lines[m].file \o <<0>>
                    /\ log[i + 2 * m].d # SameFileSentinel

\* a table of two entries of the same file written whole
C19_Witness ==
    \E i \in DOMAIN log :
        /\ log[i].k = "DebugInfo" /\ Finished(log[i].ev) /\ log[i].ev \notin failed
        /\ log[i].d.NrEntry = 2
        /\ log[i + 2].d = log[i + 4].d
        /\ log[i + 1].d.Lineno # log[i + 3].d.Lineno

\* the chunks that carry a timestamp: the header and the fixed fields of
\* the records
Stamped == {i \in DOMAIN log : log[i].k \in {"Header", "DebugInfo", "CodeLoad"}}

\* C20: the timestamps of the header and of the records do not decrease
\* along the stream, however the calls of the threads interleave.
C20_TimestampsInOrder ==
    \A i, j \in Stamped :
        i < j => log[i].d.Timestamp <= log[j].d.Timestamp

====
